---- MODULE Spec2Model ----
(***************************************************************************)
(* Model of the annotation session of classifier.py (class Classifier).    *)
(*                                                                         *)
(* Python strings are sequences of one-character strings, so that          *)
(* lower(), strip(), split('_'), zfill(), int(), str() and the string      *)
(* order used by sorted() are computed rather than assumed.  A value held  *)
(* in a record tuple is tagged with its Python type: the CSV reader yields *)
(* str cells, enter_data stores an int confidence.                         *)
(***************************************************************************)
EXTENDS Integers, Sequences, FiniteSets, TLC

(* ---------------------------------------------------------------------- *)
(* Bounds of the model                                                    *)
(* ---------------------------------------------------------------------- *)
\* number of image files of the ordinary image directory (objects 1..NumObjs)
NumObjs == 2
\* largest number of sibling record files in the directory (combined mode)
MaxSibs == 2
\* largest number of entries collected into the species filter
MaxFilter == 2

(* ---------------------------------------------------------------------- *)
(* Characters and strings                                                 *)
(* ---------------------------------------------------------------------- *)
\* the characters that occur, in ASCII order: ord(c) is the index
Chars ==
  << " ", ".", "0", "1", "2", "3", "4", "5", "6", "7", "8", "9",
     "A", "B", "N", "S", "T", "Y", "_",
     "a", "b", "c", "e", "g", "i", "j", "k", "l", "m", "n", "o", "p",
     "q", "r", "s", "t", "u", "x", "y" >>

Ord(c) == CHOOSE i \in 1..Len(Chars) : Chars[i] = c

DigitChars == <<"0", "1", "2", "3", "4", "5", "6", "7", "8", "9">>

IsDigit(c) == \E i \in 1..10 : DigitChars[i] = c

DigitVal(c) == (CHOOSE i \in 1..10 : DigitChars[i] = c) - 1

\* str.lower() on one character
LowerChar(c) ==
  CASE c = "A" -> "a"
    [] c = "B" -> "b"
    [] c = "N" -> "n"
    [] c = "S" -> "s"
    [] c = "T" -> "t"
    [] c = "Y" -> "y"
    [] OTHER -> c

\* str.lower()
Lower(s) == [i \in 1..Len(s) |-> LowerChar(s[i])]

IsSpace(c) == c = " "

RECURSIVE LStrip(_)
LStrip(s) ==
  IF s = <<>> THEN s
  ELSE IF IsSpace(Head(s)) THEN LStrip(Tail(s)) ELSE s

RECURSIVE RStrip(_)
RStrip(s) ==
  IF s = <<>> THEN s
  ELSE IF IsSpace(s[Len(s)]) THEN RStrip(SubSeq(s, 1, Len(s) - 1)) ELSE s

\* str.strip()
Strip(s) == RStrip(LStrip(s))

\* the order of Python strings: s < t
RECURSIVE StrLess(_, _)
StrLess(s, t) ==
  IF t = <<>> THEN FALSE
  ELSE IF s = <<>> THEN TRUE
  ELSE IF Head(s) = Head(t) THEN StrLess(Tail(s), Tail(t))
  ELSE Ord(Head(s)) < Ord(Head(t))

\* str(n) for n >= 0
RECURSIVE IntToStr(_)
IntToStr(n) ==
  IF n < 10 THEN <<DigitChars[n + 1]>>
  ELSE IntToStr(n \div 10) \o <<DigitChars[(n % 10) + 1]>>

\* str.zfill(w) of a string without sign
RECURSIVE ZFill(_, _)
ZFill(s, w) == IF Len(s) >= w THEN s ELSE ZFill(<<"0">> \o s, w)

RECURSIVE DigitsValue(_, _)
DigitsValue(s, acc) ==
  IF s = <<>> THEN acc ELSE DigitsValue(Tail(s), 10 * acc + DigitVal(Head(s)))

\* int(s): surrounding whitespace is ignored; ok = FALSE stands for ValueError
ParseInt(s) ==
  LET t == Strip(s)
  IN IF t # <<>> /\ \A i \in 1..Len(t) : IsDigit(t[i])
       THEN [ok |-> TRUE, n |-> DigitsValue(t, 0)]
       ELSE [ok |-> FALSE, n |-> 0]

\* str.split(sep) for a one-character separator
RECURSIVE SplitAcc(_, _, _, _)
SplitAcc(s, sep, cur, acc) ==
  IF s = <<>> THEN Append(acc, cur)
  ELSE IF Head(s) = sep THEN SplitAcc(Tail(s), sep, <<>>, Append(acc, cur))
  ELSE SplitAcc(Tail(s), sep, Append(cur, Head(s)), acc)

Split(s, sep) == SplitAcc(s, sep, <<>>, <<>>)

\* '_'.join(parts)
RECURSIVE JoinUnderscore(_)
JoinUnderscore(parts) ==
  IF Len(parts) = 1 THEN parts[1]
  ELSE parts[1] \o <<"_">> \o JoinUnderscore(Tail(parts))

(* ---------------------------------------------------------------------- *)
(* Values of record tuples                                                *)
(* ---------------------------------------------------------------------- *)
StrV(s) == [t |-> "str", s |-> s, n |-> 0]
IntV(n) == [t |-> "int", s |-> <<>>, n |-> n]

\* str(x), as csv.writer applies it to every cell
PyStr(x) == IF x.t = "int" THEN IntToStr(x.n) ELSE x.s

(* ---------------------------------------------------------------------- *)
(* File names                                                             *)
(* ---------------------------------------------------------------------- *)
\* width of the zero-padded object number
PadWidth == 5

ObjPrefix == <<"o", "b", "j">>
PlaneSuffix == <<"p", "l", "a", "n", "e", "0", "0", "0", ".", "j", "p", "g">>

\* Classifier.gen_filename
gen_filename(sample, obj_num) ==
  JoinUnderscore(<<sample, ObjPrefix \o ZFill(IntToStr(obj_num), PadWidth), PlaneSuffix>>)

\* Classifier.split_filename; ok = FALSE stands for the ValueError of the
\* three-way unpacking or of int()
split_filename(fname) ==
  LET parts == Split(fname, "_")
  IN IF Len(parts) # 3 THEN [ok |-> FALSE, sample |-> <<>>, obj |-> 0]
     ELSE LET p == ParseInt(SubSeq(parts[2], 4, Len(parts[2])))
          IN IF p.ok THEN [ok |-> TRUE, sample |-> parts[1], obj |-> p.n]
             ELSE [ok |-> FALSE, sample |-> <<>>, obj |-> 0]

\* sorted(...) of a set of strings
RECURSIVE SortedStrs(_)
SortedStrs(S) ==
  IF S = {} THEN <<>>
  ELSE LET m == CHOOSE x \in S : \A y \in S \ {x} : StrLess(x, y)
       IN <<m>> \o SortedStrs(S \ {m})

(* ---------------------------------------------------------------------- *)
(* Record files                                                           *)
(* ---------------------------------------------------------------------- *)
PlainHeaders == <<"Sample Name", "Obj. #", "Species", "Confidence">>

\* self.csv_headers
csv_headers(rep) == IF rep THEN Append(PlainHeaders, "Proloculous") ELSE PlainHeaders

\* a file: its header row (<<>> for a file without lines) and its data rows,
\* each a sequence of cells
NoFile == [exists |-> FALSE, header |-> <<>>, rows |-> <<>>]
CsvFile(h, rs) == [exists |-> TRUE, header |-> h, rows |-> rs]

EmptyMap == <<>>

\* the species is added whether or not its lower-case form is known
register_species_always(reg, spec) ==
  [known |-> reg.known \cup {spec}, lower |-> reg.lower \cup {Lower(spec)}]

\* Classifier._register_species on the pair (known_species, lower_species)
register_species(reg, spec) ==
  IF Lower(spec) \notin reg.lower
    THEN [known |-> reg.known \cup {spec}, lower |-> reg.lower \cup {Lower(spec)}]
    ELSE reg

\* the row is taken without looking for the image file of its object
LoadRowUnchecked(row, acc, rep, in_repro, smp, jpgs, add_to_completer) ==
  LET width == IF in_repro THEN 5 ELSE 4
  IN IF Len(row) # width THEN [acc EXCEPT !.err = "ValueError"]
     ELSE
       LET name == row[1]
           spec == row[3]
           conf == row[4]
           prolo == IF in_repro THEN row[5] ELSE <<>>
           row_data == IF rep THEN <<StrV(spec), StrV(conf), StrV(prolo)>>
                              ELSE <<StrV(spec), StrV(conf)>>
           p == ParseInt(row[2])
           img_fname == gen_filename(smp, p.n)
           reg == IF add_to_completer
                    THEN register_species([known |-> acc.known, lower |-> acc.lower], spec)
                    ELSE [known |-> acc.known, lower |-> acc.lower]
       IN IF ~p.ok THEN [acc EXCEPT !.err = "InvalidObjectNumber"]
          ELSE IF name # smp THEN [acc EXCEPT !.err = "SampleMismatch"]
          ELSE IF img_fname \in DOMAIN acc.data
            THEN [acc EXCEPT !.err = "DuplicateObject",
                             !.known = reg.known, !.lower = reg.lower]
          ELSE [acc EXCEPT !.data = (img_fname :> row_data) @@ acc.data,
                           !.order = Append(acc.order, img_fname),
                           !.known = reg.known, !.lower = reg.lower]

\* the body of the row loop of _load_existing, for one row
LoadRow(row, acc, rep, in_repro, smp, jpgs, add_to_completer) ==
  LET width == IF in_repro THEN 5 ELSE 4
  IN IF Len(row) # width THEN [acc EXCEPT !.err = "ValueError"]
     ELSE
       LET name == row[1]
           spec == row[3]
           conf == row[4]
           prolo == IF in_repro THEN row[5] ELSE <<>>
           row_data == IF rep THEN <<StrV(spec), StrV(conf), StrV(prolo)>>
                              ELSE <<StrV(spec), StrV(conf)>>
           p == ParseInt(row[2])
           img_fname == gen_filename(smp, p.n)
           reg == IF add_to_completer
                    THEN register_species([known |-> acc.known, lower |-> acc.lower], spec)
                    ELSE [known |-> acc.known, lower |-> acc.lower]
       IN IF ~p.ok THEN [acc EXCEPT !.err = "InvalidObjectNumber"]
          ELSE IF name # smp THEN [acc EXCEPT !.err = "SampleMismatch"]
          ELSE IF img_fname \notin jpgs THEN [acc EXCEPT !.err = "DanglingReference"]
          ELSE IF img_fname \in DOMAIN acc.data
            THEN [acc EXCEPT !.err = "DuplicateObject",
                             !.known = reg.known, !.lower = reg.lower]
          ELSE [acc EXCEPT !.data = (img_fname :> row_data) @@ acc.data,
                           !.order = Append(acc.order, img_fname),
                           !.known = reg.known, !.lower = reg.lower]

RECURSIVE LoadRows(_, _, _, _, _, _, _)
LoadRows(rows, acc, rep, in_repro, smp, jpgs, add_to_completer) ==
  IF rows = <<>> \/ acc.err # "none" THEN acc
  ELSE LoadRows(Tail(rows),
                LoadRow(Head(rows), acc, rep, in_repro, smp, jpgs, add_to_completer),
                rep, in_repro, smp, jpgs, add_to_completer)

\* the backward-compatible branch taken in plain mode as well: the header
\* without its last column is accepted whatever the mode
load_existing_symmetric(file, dat, reg, rep, smp, jpgs, add_to_completer) ==
  LET acc0 == [err |-> "none", data |-> dat, order |-> <<>>,
               known |-> reg.known, lower |-> reg.lower]
  IN IF file.header = <<>> THEN [acc0 EXCEPT !.err = "EmptyFile"]
     ELSE IF file.header = csv_headers(rep)
       THEN LoadRows(file.rows, acc0, rep, rep, smp, jpgs, add_to_completer)
     ELSE IF file.header = SubSeq(csv_headers(rep), 1, Len(csv_headers(rep)) - 1)
       THEN LoadRows(file.rows, acc0, rep, FALSE, smp, jpgs, add_to_completer)
     ELSE [acc0 EXCEPT !.err = "SchemaMismatch"]

\* Classifier._load_existing(fname, data, add_to_completer): the mapping
\* filled, its keys in insertion order, the registry, and the error raised
\* ("none" when the load returns)
load_existing(file, dat, reg, rep, smp, jpgs, add_to_completer) ==
  LET acc0 == [err |-> "none", data |-> dat, order |-> <<>>,
               known |-> reg.known, lower |-> reg.lower]
  IN IF file.header = <<>> THEN [acc0 EXCEPT !.err = "EmptyFile"]
     ELSE IF file.header = csv_headers(rep)
       THEN LoadRows(file.rows, acc0, rep, rep, smp, jpgs, add_to_completer)
     ELSE IF rep /\ file.header = SubSeq(csv_headers(rep), 1, Len(csv_headers(rep)) - 1)
       THEN LoadRows(file.rows, acc0, rep, FALSE, smp, jpgs, add_to_completer)
     ELSE [acc0 EXCEPT !.err = "SchemaMismatch"]

\* the row _write_file writes for one record
WriteRow(fname, val) ==
  LET sp == split_filename(fname)
  IN <<sp.sample, ZFill(IntToStr(sp.obj), PadWidth)>>
       \o [i \in 1..Len(val) |-> PyStr(val[i])]

\* the keys in descending order
SortedKeysDescending(dat) ==
  LET up == SortedStrs(DOMAIN dat)
  IN [i \in 1..Len(up) |-> up[Len(up) + 1 - i]]

\* sorted(self.data.items(), key=lambda x: x[0]): the keys in that order
SortedKeys(dat) == SortedStrs(DOMAIN dat)

\* Classifier._write_file: the file it leaves on disk
write_file(dat, rep) ==
  LET keys == SortedKeys(dat)
  IN CsvFile(csv_headers(rep), [i \in 1..Len(keys) |-> WriteRow(keys[i], dat[keys[i]])])

(* ---------------------------------------------------------------------- *)
(* Consensus                                                              *)
(* ---------------------------------------------------------------------- *)
\* the species are compared as they stand, without lower() and strip()
everyone_agreed_verbatim(fd, img_fname) ==
  Cardinality({fd[k][img_fname][1].s : k \in 1..Len(fd)}) <= 1

\* "if everyone agreed": one species over all files, after lower() and strip()
everyone_agreed(fd, img_fname) ==
  Cardinality({Strip(Lower(fd[k][img_fname][1].s)) : k \in 1..Len(fd)}) <= 1

\* the for loop of _find_agreements over the keys of the shortest mapping
RECURSIVE SeedLoop(_, _, _, _)
SeedLoop(keys, acc, fd, shortest) ==
  IF keys = <<>> THEN acc
  ELSE
    LET img_fname == Head(keys)
        rest == Tail(keys)
    IN IF img_fname \in DOMAIN acc.data THEN SeedLoop(rest, acc, fd, shortest)
       ELSE IF ~(\A k \in 1..Len(fd) : img_fname \in DOMAIN fd[k])
         THEN SeedLoop(rest, acc, fd, shortest)
       ELSE IF ~everyone_agreed(fd, img_fname)
         THEN SeedLoop(rest, acc, fd, shortest)
       ELSE
         LET spec == fd[shortest][img_fname][1].s
             reg == register_species([known |-> acc.known, lower |-> acc.lower], spec)
         IN SeedLoop(rest,
                     [acc EXCEPT !.data = (img_fname :> <<StrV(spec), IntV(3)>>) @@ acc.data,
                                 !.known = reg.known, !.lower = reg.lower],
                     fd, shortest)

\* Classifier._find_agreements: the sibling files are loaded in the order
\* of the directory listing; min() keeps the first of the shortest mappings
find_agreements(sibfiles, dat, reg, rep, smp, jpgs) ==
  LET loads == [i \in 1..Len(sibfiles) |->
                  load_existing(sibfiles[i], EmptyMap, reg, rep, smp, jpgs, FALSE)]
      failed == {i \in 1..Len(sibfiles) : loads[i].err # "none"}
      fd == [i \in 1..Len(sibfiles) |-> loads[i].data]
      acc0 == [err |-> "none", data |-> dat, fdata |-> fd,
               known |-> reg.known, lower |-> reg.lower]
  IN IF failed # {}
       THEN LET i == CHOOSE j \in failed : \A k \in failed : j <= k
            IN [acc0 EXCEPT !.err = loads[i].err, !.fdata = SubSeq(fd, 1, i)]
     ELSE IF Len(sibfiles) = 0 THEN [acc0 EXCEPT !.err = "ValueError"]
     ELSE
       LET size(i) == Cardinality(DOMAIN fd[i])
           shortest == CHOOSE i \in 1..Len(fd) :
                         /\ \A j \in 1..Len(fd) : size(i) <= size(j)
                         /\ \A j \in 1..(i - 1) : size(j) > size(i)
       IN SeedLoop(loads[shortest].order, acc0, fd, shortest)

(* ---------------------------------------------------------------------- *)
(* Skip rule                                                              *)
(* ---------------------------------------------------------------------- *)
NoFilter == [none |-> TRUE, list |-> <<>>]
ListFilter(l) == [none |-> FALSE, list |-> l]

InList(x, l) == \E i \in 1..Len(l) : l[i] = x

\* a recorded object is skipped in repro mode only
skip_in_repro_only(idx, files, dat, rep, flt) ==
  IF idx >= Len(files) THEN FALSE
  ELSE
    LET fname == files[idx + 1]
    IN /\ fname \in DOMAIN dat
       /\ rep
       /\ \/ dat[fname][Len(dat[fname])] # StrV(<<>>)
          \/ ~flt.none /\ ~InList(Lower(dat[fname][1].s), flt.list)

\* Classifier._skip with self.img_idx = idx
skip(idx, files, dat, rep, flt) ==
  IF idx >= Len(files) THEN FALSE
  ELSE
    LET fname == files[idx + 1]
    IN IF fname \in DOMAIN dat
         THEN IF ~rep THEN TRUE
              ELSE IF dat[fname][Len(dat[fname])] # StrV(<<>>) THEN TRUE
              ELSE IF ~flt.none THEN ~InList(Lower(dat[fname][1].s), flt.list)
              ELSE FALSE
         ELSE FALSE

\* the cursor moves past every recorded object, whatever _skip says
RECURSIVE skip_loop_recorded(_, _, _, _, _)
skip_loop_recorded(idx, files, dat, rep, flt) ==
  IF idx < Len(files) /\ files[idx + 1] \in DOMAIN dat
    THEN skip_loop_recorded(idx + 1, files, dat, rep, flt)
    ELSE idx

\* the while loop at the head of enter_data: the cursor it leaves
RECURSIVE skip_loop(_, _, _, _, _)
skip_loop(idx, files, dat, rep, flt) ==
  IF skip(idx, files, dat, rep, flt) THEN skip_loop(idx + 1, files, dat, rep, flt) ELSE idx

(* ---------------------------------------------------------------------- *)
(* State                                                                  *)
(* ---------------------------------------------------------------------- *)
VARIABLES
  repro,            \* --repro
  filt,             \* --filter
  combined,         \* initials == 'combined'
  dir_jpgs,         \* the names of the .jpg files of the image directory
  sibs,             \* the other .csv files of the directory, in listing order
  disk,             \* the record file self.f
  img_files,        \* self.img_files
  sample,           \* self.sample
  data,             \* self.data
  fdata,            \* self.fdata (<<>> while None)
  known_species,    \* self.known_species
  lower_species,    \* self.lower_species
  species_filter,   \* self._species_filter
  img_idx,          \* self.img_idx
  spec,             \* local spec of enter_data
  conf,             \* local conf of enter_data
  pc,               \* where the session is
  outcome,          \* how the session ended, "running" until then
  confirm,          \* local confirm of _get_species_filter
  began,            \* history: data, disk and cursor when the solicitation began
  mutated,          \* history: self.data was changed after the own file was loaded
  prompts,          \* history: the prompts issued so far
  displayed,        \* history: the file names written to the viewer's stdin
  accepted          \* history: the objects enter_data has stored a record for

vars == <<repro, filt, combined, dir_jpgs, sibs, disk, img_files, sample, data,
          fdata, known_species, lower_species, species_filter, img_idx, spec,
          conf, pc, outcome, confirm, began, mutated, prompts, displayed,
          accepted>>

env == <<repro, filt, combined, dir_jpgs, sibs>>

NoneV == [t |-> "none", s |-> <<>>, n |-> 0]

\* the states in which the session waits at a prompt
PromptStates == {"filter_species", "filter_confirm", "species", "conf", "prolo"}

\* the prompts issued once the session goes to next_pc
Issue(next_pc) == IF next_pc \in PromptStates THEN prompts \cup {next_pc} ELSE prompts

\* confirm = 'a'
Unconfirmed == <<"a">>

(* ---------------------------------------------------------------------- *)
(* The inputs: directories, files and typed tokens                        *)
(* ---------------------------------------------------------------------- *)
SampleName == <<"S">>

SpA == <<"A">>
SpSpaceA == <<" ", "a">>
SpB == <<"b">>
Quit == <<"q", "u", "i", "t">>
Mega == <<"m", "e", "g", "a">>
Micro == <<"m", "i", "c", "r", "o">>
Unk == <<"u", "n", "k">>
ChangeSpecies == <<"c">>

\* the ordinary directory: objects 1..NumObjs
OrdinaryDir == {gen_filename(SampleName, n) : n \in 1..NumObjs}
\* a directory with an object number of six digits
WideDir == {gen_filename(SampleName, 20000), gen_filename(SampleName, 100000)}

ObjCell(n) == ZFill(IntToStr(n), PadWidth)

\* the rows for objects n..hi, c[n] = <<>> meaning no row for n
RECURSIVE RowsFrom(_, _, _)
RowsFrom(n, hi, c) ==
  IF n > hi THEN <<>>
  ELSE IF c[n] = <<>> THEN RowsFrom(n + 1, hi, c)
  ELSE <<(<<SampleName, ObjCell(n)>> \o c[n])>> \o RowsFrom(n + 1, hi, c)

PlainTails == {<<SpA, <<"2">>>>, <<SpB, <<"2">>>>}
ReproTails == {<<SpA, <<"2">>, <<>>>>, <<SpA, <<"2">>, Mega>>, <<SpB, <<"2">>, <<>>>>}

\* record files left by an earlier session over the ordinary directory
OwnFiles ==
  {NoFile}
  \cup {CsvFile(PlainHeaders, RowsFrom(1, NumObjs, c)) :
          c \in [1..NumObjs -> PlainTails \cup {<<>>}]}
  \cup {CsvFile(csv_headers(TRUE), RowsFrom(1, NumObjs, c)) :
          c \in [1..NumObjs -> ReproTails \cup {<<>>}]}

\* headers that are neither accepted variant: an extra column, a missing
\* column, two columns exchanged, a misspelled label
ExtraColumn == Append(PlainHeaders, "Notes")
MissingColumn == SubSeq(PlainHeaders, 1, 3)
Reordered == <<"Sample Name", "Obj. #", "Confidence", "Species">>
Misspelled == <<"Sample name", "Obj. #", "Species", "Confidence">>
OtherHeaders == {ExtraColumn, MissingColumn, Reordered, Misspelled}

GoodRow == <<SampleName, ObjCell(1), SpA, <<"2">>>>

\* rows _load_existing rejects after a row it accepts: the same object
\* again, an object without an image, an object number that is no number,
\* another sample name, a row that is one cell short
BadRows ==
  {<<SampleName, ObjCell(1), SpB, <<"2">>>>,
   <<SampleName, ObjCell(NumObjs + 1), SpB, <<"2">>>>,
   <<SampleName, <<"x">>, SpB, <<"2">>>>,
   <<(<<"T">>), ObjCell(2), SpB, <<"2">>>>,
   <<SampleName, ObjCell(2), SpB>>}

\* record files the load rejects: a file without lines, the other headers,
\* the bad rows under the plain header
BadFiles ==
  {CsvFile(<<>>, <<>>)}
  \cup {CsvFile(h, <<GoodRow>>) : h \in OtherHeaders}
  \cup {CsvFile(PlainHeaders, <<GoodRow, r>>) : r \in BadRows}

\* sibling files of which one is rejected
BadSibSeqs ==
  {<<CsvFile(PlainHeaders, <<GoodRow, r>>)>> : r \in BadRows}
  \cup {<<CsvFile(PlainHeaders, <<GoodRow>>), CsvFile(Reordered, <<GoodRow>>)>>}

\* a directory whose second image carries another sample name
MixedSampleDir == {gen_filename(SampleName, 1), gen_filename(<<"T">>, 2)}
\* a directory whose second image name has two segments only
MalformedDir ==
  {gen_filename(SampleName, 1),
   <<"S", "_", "o", "b", "j", "0", "0", "0", "0", "2", ".", "j", "p", "g">>}

\* the combined file of an earlier session, when there is one
CombinedFiles ==
  {NoFile, CsvFile(PlainHeaders, <<(<<SampleName, ObjCell(1), SpB, <<"3">>>>)>>)}

\* a rater's file: object 1 under one of three labels, object 2 under one
SibTails(n) ==
  IF n = 1 THEN {<<SpA, <<"1">>>>, <<SpSpaceA, <<"2">>>>, <<SpB, <<"2">>>>, <<>>}
  ELSE {<<SpB, <<"1">>>>, <<>>}

SibObjs == IF NumObjs < 2 THEN NumObjs ELSE 2

SibFiles ==
  {CsvFile(PlainHeaders, RowsFrom(1, SibObjs, c)) :
     c \in {f \in [1..SibObjs -> UNION {SibTails(n) : n \in 1..SibObjs}] :
              \A n \in 1..SibObjs : f[n] \in SibTails(n)}}

SibSeqs == UNION {[1..k -> SibFiles] : k \in 0..MaxSibs}

\* the lines of the species names file (<<>>: there is none)
SeedFiles == {<<>>, <<(<<"a", " ">>)>>}

SpeciesTokens == {SpSpaceA, Quit}
ConfTokens == {<<"1">>, <<"3">>, ChangeSpecies, <<"x">>}
ProloTokens == {Mega, ChangeSpecies, <<"x">>}
FilterTokens == {<<>>, SpSpaceA, <<"B">>}
ConfirmTokens == {<<"y">>, <<"n">>, <<"N">>, <<>>, <<"x">>}

(* ---------------------------------------------------------------------- *)
(* Initial states: the process is started, nothing is constructed         *)
(* ---------------------------------------------------------------------- *)
\* The families of runs: a rater's session over the ordinary directory
\* with any earlier file; a combined session with any sibling files; a
\* session over the wide, the empty, the mixed or the malformed directory; a
\* rater's session over a file the load rejects; a combined session with a
\* sibling file the load rejects.
Init ==
  /\ \/ /\ combined = FALSE
        /\ repro \in BOOLEAN
        /\ filt \in BOOLEAN
        /\ dir_jpgs = OrdinaryDir
        /\ disk \in OwnFiles
        /\ sibs = <<>>
     \/ /\ combined = TRUE
        /\ repro \in BOOLEAN
        /\ filt = FALSE
        /\ dir_jpgs = OrdinaryDir
        /\ disk \in CombinedFiles
        /\ sibs \in SibSeqs
     \/ /\ combined = FALSE
        /\ repro \in BOOLEAN
        /\ filt = FALSE
        /\ dir_jpgs \in {WideDir, {}, MixedSampleDir, MalformedDir}
        /\ disk = NoFile
        /\ sibs = <<>>
     \/ /\ combined = FALSE
        /\ repro \in BOOLEAN
        /\ filt = FALSE
        /\ dir_jpgs = OrdinaryDir
        /\ disk \in BadFiles
        /\ sibs = <<>>
     \/ /\ combined = TRUE
        /\ repro = FALSE
        /\ filt = FALSE
        /\ dir_jpgs = OrdinaryDir
        /\ disk = NoFile
        /\ sibs \in BadSibSeqs
  /\ img_files = <<>>
  /\ sample = <<>>
  /\ data = EmptyMap
  /\ fdata = <<>>
  /\ known_species = {}
  /\ lower_species = {}
  /\ species_filter = NoFilter
  /\ img_idx = 0
  /\ spec = NoneV
  /\ conf = NoneV
  /\ pc = "start"
  /\ outcome = "running"
  /\ confirm = Unconfirmed
  /\ began = <<EmptyMap, disk, 0>>
  /\ mutated = FALSE
  /\ prompts = {}
  /\ displayed = {}
  /\ accepted = {}

(* ---------------------------------------------------------------------- *)
(* Construction                                                           *)
(* ---------------------------------------------------------------------- *)
\* where __init__ goes after the consensus step: the filter prompts or the end
AfterAgreements == IF filt THEN "filter_species" ELSE "constructed"
FilterAtEntry == IF filt THEN ListFilter(<<>>) ELSE NoFilter

\* Classifier.__init__ up to the consensus step: scan, load the own file
ClassifierInit ==
  /\ pc = "start"
  /\ LET files == SortedStrs(dir_jpgs)
         smp == IF files = <<>> THEN <<>> ELSE Split(files[1], "_")[1]
         reg0 == [known |-> {}, lower |-> {}]
         none == [err |-> "none", data |-> EmptyMap, order |-> <<>>,
                  known |-> {}, lower |-> {}]
         r == IF files = <<>> THEN [none EXCEPT !.err = "FileNotFoundError"]
              ELSE IF disk.exists
                THEN load_existing(disk, EmptyMap, reg0, repro, smp, dir_jpgs, TRUE)
              ELSE IF filt THEN [none EXCEPT !.err = "FilterWithoutFile"]
              ELSE none
         ok == r.err = "none"
     IN /\ img_files' = files
        /\ sample' = smp
        /\ data' = r.data
        /\ known_species' = r.known
        /\ lower_species' = r.lower
        /\ pc' = IF ~ok THEN "aborted"
                 ELSE IF combined THEN "find_agreements" ELSE AfterAgreements
        /\ outcome' = IF ok THEN outcome ELSE r.err
        /\ species_filter' = IF ok /\ ~combined THEN FilterAtEntry ELSE NoFilter
        /\ began' = <<r.data, disk, 0>>
        /\ prompts' = Issue(pc')
  /\ UNCHANGED <<env, disk, fdata, img_idx, spec, conf, confirm, mutated,
                 displayed, accepted>>

\* Classifier.__init__, the consensus step (initials == 'combined')
FindAgreements ==
  /\ pc = "find_agreements"
  /\ LET r == find_agreements(sibs, data,
                              [known |-> known_species, lower |-> lower_species],
                              repro, sample, dir_jpgs)
         ok == r.err = "none"
     IN /\ fdata' = r.fdata
        /\ data' = r.data
        /\ known_species' = r.known
        /\ lower_species' = r.lower
        /\ mutated' = (mutated \/ r.data # data)
        /\ pc' = IF ok THEN AfterAgreements ELSE "aborted"
        /\ outcome' = IF ok THEN outcome ELSE r.err
        /\ species_filter' = IF ok THEN FilterAtEntry ELSE NoFilter
        /\ began' = <<r.data, disk, 0>>
        /\ prompts' = Issue(pc')
  /\ UNCHANGED <<env, disk, img_files, sample, img_idx, spec, conf, confirm,
                 displayed, accepted>>

\* x in y for Python strings: x is a substring of y
InStr(x, y) == \E i \in 0..(Len(y) - Len(x)) : SubSeq(y, i + 1, i + Len(x)) = x

\* _get_species_filter: one answer to "Species name: "
FilterSpecies(s) ==
  /\ pc = "filter_species"
  /\ IF Strip(s) = <<>>
       THEN /\ pc' = "filter_confirm"
            /\ confirm' = Unconfirmed
            /\ UNCHANGED species_filter
       ELSE /\ Len(species_filter.list) < MaxFilter
            /\ species_filter' = ListFilter(Append(species_filter.list, Lower(Strip(s))))
            /\ UNCHANGED <<pc, confirm>>
  /\ prompts' = Issue(pc')
  /\ UNCHANGED <<env, disk, img_files, sample, data, fdata, known_species,
                 lower_species, img_idx, spec, conf, outcome, began, mutated,
                 displayed, accepted>>

\* _get_species_filter: one answer to "Confirm species filter list (y/n): "
FilterConfirm(c) ==
  /\ pc = "filter_confirm"
  /\ IF ~InStr(Lower(c), <<"y", "n">>)
       THEN UNCHANGED <<pc, species_filter>>
       ELSE IF c = <<"n">>
         THEN /\ species_filter' = ListFilter(<<>>)
              /\ pc' = "filter_species"
         ELSE /\ pc' = "constructed"
              /\ UNCHANGED species_filter
  /\ confirm' = c
  /\ prompts' = Issue(pc')
  /\ UNCHANGED <<env, disk, img_files, sample, data, fdata, known_species,
                 lower_species, img_idx, spec, conf, outcome, began, mutated,
                 displayed, accepted>>

\* the registrations of add_names_from_file, line by line
RECURSIVE add_names(_, _)
add_names(lines, reg) ==
  IF lines = <<>> THEN reg
  ELSE add_names(Tail(lines), register_species(reg, Strip(Head(lines))))

\* main: add_names_from_file when there is a species names file, then run()
AddNamesFromFile(lines) ==
  /\ pc = "constructed"
  /\ LET reg == add_names(lines, [known |-> known_species, lower |-> lower_species])
     IN /\ known_species' = reg.known
        /\ lower_species' = reg.lower
  /\ pc' = "loop"
  /\ confirm' = Unconfirmed
  /\ UNCHANGED <<env, disk, img_files, sample, data, fdata, species_filter,
                 img_idx, spec, conf, outcome, began, mutated, prompts,
                 displayed, accepted>>

(* ---------------------------------------------------------------------- *)
(* The annotation loop                                                    *)
(* ---------------------------------------------------------------------- *)
\* the object at the cursor
CurFname == img_files[img_idx + 1]

\* del self.data[fname]
Remove(dat, fname) == [k \in (DOMAIN dat) \ {fname} |-> dat[k]]

\* the record is stored with its species in lower case
StoredLowercased(fname, spv, cfv, prv) ==
  LET reg == register_species([known |-> known_species, lower |-> lower_species], spv.s)
      val == IF repro THEN <<StrV(Lower(spv.s)), cfv, prv>> ELSE <<StrV(Lower(spv.s)), cfv>>
      dat == (fname :> val) @@ data
  IN [data |-> dat, known |-> reg.known, lower |-> reg.lower,
      disk |-> write_file(dat, repro)]

\* the tail of enter_data: register the species, store the record and
\* rewrite the file
Stored(fname, spv, cfv, prv) ==
  LET reg == register_species([known |-> known_species, lower |-> lower_species], spv.s)
      val == IF repro THEN <<spv, cfv, prv>> ELSE <<spv, cfv>>
      dat == (fname :> val) @@ data
  IN [data |-> dat, known |-> reg.known, lower |-> reg.lower,
      disk |-> write_file(dat, repro)]

\* enter_data from its call to its first prompt (or to its return)
EnterData ==
  /\ pc = "loop"
  /\ LET idx == skip_loop(img_idx, img_files, data, repro, species_filter)
         atEnd == idx >= Len(img_files)
         fname == img_files[idx + 1]
         sp == split_filename(fname)
         known == ~atEnd /\ fname \in DOMAIN data
         st == Stored(fname, data[fname][1], data[fname][2], NoneV)
         storeNow == known /\ sp.ok /\ sp.sample = sample /\ ~repro
     IN /\ img_idx' = idx
        /\ pc' = IF atEnd THEN "done"
                 ELSE IF ~sp.ok \/ sp.sample # sample THEN "aborted"
                 ELSE IF ~known THEN "species"
                 ELSE IF repro THEN "prolo"
                 ELSE "loop"
        /\ outcome' = IF atEnd THEN "complete"
                      ELSE IF ~sp.ok THEN "ValueError"
                      ELSE IF sp.sample # sample THEN "SampleMismatch"
                      ELSE outcome
        /\ spec' = IF known /\ repro THEN data[fname][1] ELSE NoneV
        /\ conf' = IF known /\ repro THEN data[fname][2] ELSE NoneV
        /\ data' = IF storeNow THEN st.data ELSE data
        /\ disk' = IF storeNow THEN st.disk ELSE disk
        /\ known_species' = IF storeNow THEN st.known ELSE known_species
        /\ lower_species' = IF storeNow THEN st.lower ELSE lower_species
        /\ mutated' = (mutated \/ storeNow)
        /\ began' = <<data, disk, idx>>
        /\ prompts' = Issue(pc')
        /\ displayed' = IF ~atEnd /\ sp.ok THEN displayed \cup {fname} ELSE displayed
        /\ accepted' = IF storeNow THEN accepted \cup {fname} ELSE accepted
  /\ UNCHANGED <<env, img_files, sample, fdata, species_filter, confirm>>

\* "quit" moves the cursor past the object before returning
SpeciesInputQuitAdvances(s) ==
  /\ pc = "species"
  /\ IF Strip(s) = Quit
       THEN /\ pc' = "done"
            /\ outcome' = "quit"
            /\ spec' = NoneV
            /\ img_idx' = img_idx + 1
       ELSE /\ pc' = "conf"
            /\ spec' = StrV(Strip(s))
            /\ UNCHANGED <<outcome, img_idx>>
  /\ prompts' = Issue(pc')
  /\ UNCHANGED <<env, disk, img_files, sample, data, fdata, known_species,
                 lower_species, species_filter, conf, confirm, began, mutated,
                 displayed, accepted>>

\* one answer to "Enter species name: "
SpeciesInput(s) ==
  /\ pc = "species"
  /\ IF Strip(s) = Quit
       THEN /\ pc' = "done"
            /\ outcome' = "quit"
            /\ spec' = NoneV
       ELSE /\ pc' = "conf"
            /\ spec' = StrV(Strip(s))
            /\ UNCHANGED outcome
  /\ prompts' = Issue(pc')
  /\ UNCHANGED <<env, disk, img_files, sample, data, fdata, known_species,
                 lower_species, species_filter, img_idx, conf, confirm, began,
                 mutated, displayed, accepted>>

\* the confidence prompt without its validation loop: every answer other
\* than the sentinel is taken as the confidence
ConfInputUnvalidated(c) ==
  /\ pc = "conf"
  /\ LET cf == IF ParseInt(c).ok THEN IntV(ParseInt(c).n) ELSE StrV(c)
         st == Stored(CurFname, spec, cf, NoneV)
         storeNow == c # ChangeSpecies /\ ~repro
     IN /\ pc' = IF c = ChangeSpecies THEN "species"
                 ELSE IF repro THEN "prolo"
                 ELSE "loop"
        /\ spec' = IF c = ChangeSpecies \/ storeNow THEN NoneV ELSE spec
        /\ conf' = IF storeNow THEN NoneV ELSE IF c = ChangeSpecies THEN StrV(c) ELSE cf
        /\ data' = IF storeNow THEN st.data ELSE data
        /\ disk' = IF storeNow THEN st.disk ELSE disk
        /\ known_species' = IF storeNow THEN st.known ELSE known_species
        /\ lower_species' = IF storeNow THEN st.lower ELSE lower_species
        /\ mutated' = (mutated \/ storeNow)
        /\ accepted' = IF storeNow THEN accepted \cup {CurFname} ELSE accepted
        /\ prompts' = Issue(pc')
  /\ UNCHANGED <<env, img_files, sample, fdata, species_filter, img_idx,
                 outcome, confirm, began, displayed>>

\* one answer to the confidence prompt
ConfInput(c) ==
  /\ pc = "conf"
  /\ LET valid == c \in {<<"1">>, <<"2">>, <<"3">>}
         st == Stored(CurFname, spec, IntV(ParseInt(c).n), NoneV)
         storeNow == valid /\ ~repro
     IN /\ pc' = IF c = ChangeSpecies THEN "species"
                 ELSE IF ~valid THEN "conf"
                 ELSE IF repro THEN "prolo"
                 ELSE "loop"
        /\ spec' = IF c = ChangeSpecies \/ storeNow THEN NoneV ELSE spec
        /\ conf' = IF storeNow THEN NoneV
                   ELSE IF valid THEN IntV(ParseInt(c).n)
                   ELSE StrV(c)
        /\ data' = IF storeNow THEN st.data ELSE data
        /\ disk' = IF storeNow THEN st.disk ELSE disk
        /\ known_species' = IF storeNow THEN st.known ELSE known_species
        /\ lower_species' = IF storeNow THEN st.lower ELSE lower_species
        /\ mutated' = (mutated \/ storeNow)
        /\ accepted' = IF storeNow THEN accepted \cup {CurFname} ELSE accepted
        /\ prompts' = Issue(pc')
  /\ UNCHANGED <<env, img_files, sample, fdata, species_filter, img_idx,
                 outcome, confirm, began, displayed>>

\* one answer to the proloculous prompt (repro mode)
ProloInput(p) ==
  /\ pc = "prolo"
  /\ LET valid == p \in {Mega, Micro, Unk}
         change == p = ChangeSpecies
         present == CurFname \in DOMAIN data
         st == Stored(CurFname, spec, conf, StrV(p))
     IN /\ pc' = IF valid THEN "loop"
                 ELSE IF ~change THEN "prolo"
                 ELSE IF present THEN "loop"
                 ELSE "aborted"
        /\ outcome' = IF change /\ ~present THEN "KeyError" ELSE outcome
        /\ spec' = IF valid \/ change THEN NoneV ELSE spec
        /\ conf' = IF valid \/ change THEN NoneV ELSE conf
        /\ data' = IF valid THEN st.data
                   ELSE IF change /\ present THEN Remove(data, CurFname)
                   ELSE data
        /\ disk' = IF valid THEN st.disk ELSE disk
        /\ known_species' = IF valid THEN st.known ELSE known_species
        /\ lower_species' = IF valid THEN st.lower ELSE lower_species
        /\ mutated' = (mutated \/ valid \/ (change /\ present))
        /\ accepted' = IF valid THEN accepted \cup {CurFname} ELSE accepted
        /\ prompts' = Issue(pc')
  /\ UNCHANGED <<env, img_files, sample, fdata, species_filter, img_idx,
                 confirm, began, displayed>>

\* KeyboardInterrupt at a prompt of data_loop
Interrupt ==
  /\ pc \in {"species", "conf", "prolo"}
  /\ pc' = "done"
  /\ outcome' = "interrupt"
  /\ spec' = NoneV
  /\ conf' = NoneV
  /\ UNCHANGED <<env, disk, img_files, sample, data, fdata, known_species,
                 lower_species, species_filter, img_idx, confirm, began, mutated,
                 prompts, displayed, accepted>>

Next ==
  \/ ClassifierInit
  \/ FindAgreements
  \/ \E s \in FilterTokens : FilterSpecies(s)
  \/ \E c \in ConfirmTokens : FilterConfirm(c)
  \/ \E lines \in SeedFiles : AddNamesFromFile(lines)
  \/ EnterData
  \/ \E s \in SpeciesTokens : SpeciesInput(s)
  \/ \E c \in ConfTokens : ConfInput(c)
  \/ \E p \in ProloTokens : ProloInput(p)
  \/ Interrupt

Spec == Init /\ [][Next]_vars

(* ---------------------------------------------------------------------- *)
(* Properties                                                             *)
(* ---------------------------------------------------------------------- *)
\* the object -> record entries of the file and of the mapping, as rows
DiskEntries == {disk.rows[i] : i \in 1..Len(disk.rows)}
DataEntries == {WriteRow(k, data[k]) : k \in DOMAIN data}

\* C1 (write-through persistence): once the mapping has been mutated, at
\* every prompt and at termination the record file holds exactly the
\* entries of the in-memory mapping.
C1_WriteThrough ==
  (mutated /\ pc \in PromptStates \cup {"done"}) => DiskEntries = DataEntries

\* every sibling mapping has the object, and all their species are equal
\* after trimming and lowercasing
Unanimous(fd, f) ==
  /\ \A k \in 1..Len(fd) : f \in DOMAIN fd[k]
  /\ \A j, k \in 1..Len(fd) : Lower(Strip(fd[j][f][1].s)) = Lower(Strip(fd[k][f][1].s))

\* C2 (consensus unanimity): in combined mode with at least one sibling
\* file, an object that is not in the combined store at load time is in it
\* after _find_agreements, with confidence 3, exactly when every sibling
\* has it and all siblings' normalized species are equal.
C2_ConsensusUnanimity ==
  [][(pc = "find_agreements" /\ pc' # "aborted" /\ Len(sibs) >= 1)
       => \A f \in dir_jpgs :
            f \notin DOMAIN data
              => ((f \in DOMAIN data' /\ data'[f][2] = IntV(3)) <=> Unanimous(fdata', f))]_vars

\* two siblings agree on an object only up to case and whitespace and it was
\* seeded; another object, recorded by one sibling only, was not
C2_Witness ==
  /\ pc = "constructed"
  /\ combined
  /\ Len(fdata) = 2
  /\ \E f \in DOMAIN data :
       /\ data[f][2] = IntV(3)
       /\ f \in DOMAIN fdata[1] /\ f \in DOMAIN fdata[2]
       /\ fdata[1][f][1] # fdata[2][f][1]
  /\ \E g \in dir_jpgs :
       /\ g \notin DOMAIN data
       /\ g \in DOMAIN fdata[1]
       /\ g \notin DOMAIN fdata[2]

\* the record has a non-empty secondary attribute
HasProlo(rec) == Len(rec) = 3 /\ rec[3] # StrV(<<>>)

Constructed == pc \in {"constructed", "loop", "species", "conf", "prolo", "done"}

\* C3 (skip rule without a species filter): at every cursor position _skip
\* is true exactly when the object has a record and the session is in plain
\* mode or the record's secondary attribute is non-empty.
C3_SkipRule ==
  (Constructed /\ species_filter.none)
    => \A idx \in 0..(Len(img_files) - 1) :
         skip(idx, img_files, data, repro, species_filter)
           <=> /\ img_files[idx + 1] \in DOMAIN data
               /\ (~repro \/ HasProlo(data[img_files[idx + 1]]))

\* C4 (filter restriction): in a filter-mode session, with or without repro
\* mode, every recorded object whose species is not in the restriction set
\* (case-insensitively) is skipped, and every recorded object whose species
\* is in the set and which lacks the secondary attribute is presented.
C4_FilterRestriction ==
  (pc \in {"loop", "species", "conf", "prolo", "done"} /\ ~species_filter.none)
    => \A idx \in 0..(Len(img_files) - 1) :
         LET fname == img_files[idx + 1]
         IN fname \in DOMAIN data
              => /\ ~InList(Lower(data[fname][1].s), species_filter.list)
                      => skip(idx, img_files, data, repro, species_filter)
                 /\ (InList(Lower(data[fname][1].s), species_filter.list)
                       /\ ~HasProlo(data[fname]))
                      => ~skip(idx, img_files, data, repro, species_filter)

\* C5 (round trip): writing a non-empty reachable mapping with _write_file
\* and reloading the file with _load_existing in the same schema mode
\* succeeds and yields the identical mapping: same species string, same
\* confidence as an integer, same secondary attribute.
C5_RoundTrip ==
  (Constructed /\ data # EmptyMap)
    => LET r == load_existing(write_file(data, repro), EmptyMap,
                              [known |-> {}, lower |-> {}], repro, sample,
                              dir_jpgs, FALSE)
       IN r.err = "none" /\ r.data = data

\* the object numbers of the rows are in non-decreasing numeric order
NumericSorted(rows) ==
  \A i, j \in 1..Len(rows) : i < j => ParseInt(rows[i][2]).n <= ParseInt(rows[j][2]).n

\* the rows are in ascending order of the image file name of their object
FilenameSorted(rows) ==
  \A i, j \in 1..Len(rows) :
    i < j => StrLess(gen_filename(rows[i][1], ParseInt(rows[i][2]).n),
                     gen_filename(rows[j][1], ParseInt(rows[j][2]).n))

\* every object number of the rows has at most PadWidth digits
FitsPad(rows) == \A i \in 1..Len(rows) : Len(rows[i][2]) <= PadWidth

\* C6 as stated (sorted persistence): whatever the insertion order, the
\* rows _write_file writes are in non-decreasing object-number order, for
\* every positive object number.
C6_SortedByNumber == [][disk' # disk => NumericSorted(disk'.rows)]_vars

\* C6 as amended: with image files named by the convention, the rows
\* _write_file writes are in ascending order of the image file name, which
\* is object-number order whenever every object number has at most five
\* digits.
C6_SortedByFilename ==
  [][disk' # disk
       => /\ FilenameSorted(disk'.rows)
          /\ FitsPad(disk'.rows) => NumericSorted(disk'.rows)]_vars

\* object 2 was in the store first, object 1 was inserted after it, and the
\* file has been rewritten with both
C6_Witness ==
  /\ pc = "loop"
  /\ mutated
  /\ Len(disk.rows) = 2
  /\ DOMAIN began[1] = {gen_filename(SampleName, 2)}
  /\ DOMAIN data = {gen_filename(SampleName, 1), gen_filename(SampleName, 2)}

\* C7 (user-initiated termination): after "quit" at the species prompt or
\* an interrupt at a prompt of the annotation loop the session is Complete,
\* and the mapping, the record file and the cursor are what they were when
\* the solicitation of that object began.
C7_UserTermination ==
  outcome \in {"quit", "interrupt"}
    => pc = "done" /\ data = began[1] /\ disk = began[2] /\ img_idx = began[3]

\* the user quits at the species prompt of a later object, after a record
\* was accepted and written in this session
C7_Witness ==
  /\ outcome = "quit"
  /\ mutated
  /\ disk.exists
  /\ data # EmptyMap
  /\ img_idx > 0

\* a step that answers the secondary-attribute prompt with the
\* change-species sentinel: it leaves the prompt, neither by an interrupt
\* nor by storing a record for the object at the cursor
ChangeAtProlo ==
  /\ pc = "prolo"
  /\ pc' \notin {"prolo", "done"}
  /\ CurFname \notin DOMAIN data'

\* C8 (repro-mode change-species): the change-species sentinel at the
\* secondary-attribute prompt never raises an error; afterwards the object
\* at the cursor has no record, the cursor is unchanged and the next step
\* solicits the species of the same object, whether or not the object had a
\* record before.
C8_ChangeSpeciesAtProlo ==
  [][ChangeAtProlo
       => /\ pc' = "loop"
          /\ outcome' = "running"
          /\ img_idx' = img_idx
          /\ skip_loop(img_idx', img_files', data', repro', species_filter') = img_idx]_vars

ValidConf == {IntV(1), IntV(2), IntV(3)}

\* C9 (confidence prompt): an invalid confidence token or a change-species
\* sentinel changes neither the cursor, nor the mapping, nor the file, and
\* is not fatal; the step proceeds only with a confidence in {1,2,3}.
C9_ConfidencePrompt ==
  [][pc = "conf"
       => /\ pc' # "aborted"
          /\ pc' \in {"conf", "species"}
               => /\ UNCHANGED <<data, disk, img_idx>>
                  /\ outcome' = "running"
          /\ pc' = "prolo" => conf' \in ValidConf
          /\ pc' = "loop"
               => /\ CurFname \in DOMAIN data'
                  /\ data'[CurFname][2] \in ValidConf]_vars

\* an invalid token was answered in place, and a change-species sentinel
\* restarted the species prompt, after a record was written in this session
C9_Witness ==
  /\ mutated
  /\ disk.exists
  /\ \/ pc = "conf" /\ conf = StrV(<<"x">>)
     \/ pc = "species" /\ conf = StrV(ChangeSpecies)

\* C10 (merger no-op without siblings): in combined mode without any
\* sibling record file the consensus step raises no error, leaves the
\* combined store as loaded and the session goes on.
C10_MergerNoOp ==
  [][(pc = "find_agreements" /\ Len(sibs) = 0)
       => (pc' # "aborted" /\ data' = data)]_vars

\* C11 (schema acceptance is one-directional): the load of the record file
\* succeeds only for the plain header or the plain header plus the
\* Proloculous column; the plain header is accepted in repro mode and every
\* record loaded from it has an empty secondary attribute; the Proloculous
\* header in plain mode, and every other header in both modes, is a schema
\* error.
C11_SchemaAcceptance ==
  [][(pc = "start" /\ disk.exists /\ disk.header # <<>>)
       => LET h == disk.header
          IN /\ pc' # "aborted" => h \in {PlainHeaders, csv_headers(TRUE)}
             /\ h = PlainHeaders => outcome' # "SchemaMismatch"
             /\ (h = PlainHeaders /\ repro /\ pc' # "aborted")
                  => \A f \in DOMAIN data' : data'[f][3] = StrV(<<>>)
             /\ (h = csv_headers(TRUE) /\ repro) => outcome' # "SchemaMismatch"
             /\ (h = csv_headers(TRUE) /\ ~repro) => outcome' = "SchemaMismatch"
             /\ h \notin {PlainHeaders, csv_headers(TRUE)}
                  => outcome' = "SchemaMismatch"]_vars

\* a repro session has loaded a file with the plain header: its records are
\* in the mapping, each with an empty secondary attribute
C11_Witness ==
  /\ pc = "constructed"
  /\ repro
  /\ disk.header = PlainHeaders
  /\ Cardinality(DOMAIN data) = NumObjs
  /\ \A f \in DOMAIN data : data[f][3] = StrV(<<>>)

\* the prompts of the annotation loop
AnnotationPrompts == {"species", "conf", "prolo"}

\* the session was aborted by the ValueError of split_filename on the image
\* at the cursor
MalformedFilename ==
  /\ outcome = "ValueError"
  /\ img_idx < Len(img_files)
  /\ ~split_filename(img_files[img_idx + 1]).ok

\* the session was aborted by a structural validation failure
StructuralFailure ==
  \/ outcome \in {"SchemaMismatch", "DanglingReference", "DuplicateObject",
                  "SampleMismatch"}
  \/ MalformedFilename

\* C12 (structural failures are fatal before any annotation): a session
\* aborted by a schema mismatch, a dangling image reference, a duplicate
\* object, a sample-name mismatch or a malformed image file name has issued
\* no annotation prompt, has accepted no annotation and has not written the
\* record file.
C12_FatalBeforeAnnotation ==
  StructuralFailure
    => /\ pc = "aborted"
       /\ prompts \cap AnnotationPrompts = {}
       /\ accepted = {}

\* every image of the directory has a record in the mapping
AllRecorded == \A i \in 1..Len(img_files) : img_files[i] \in DOMAIN data

\* C13 (skip-logic idempotence): a plain-mode session that enters the
\* annotation loop with a record for every object of the directory, having
\* accepted nothing itself, has issued no annotation prompt and sent no
\* display command, and its first enter_data call ends the traversal as
\* complete with the cursor at the end, without a prompt, a display command
\* or a write to the record file.
C13_SkipIdempotence ==
  [][(pc = "loop" /\ ~repro /\ accepted = {} /\ AllRecorded)
       => /\ prompts \cap AnnotationPrompts = {}
          /\ displayed = {}
          /\ pc' = "done"
          /\ outcome' = "complete"
          /\ img_idx' = Len(img_files)
          /\ UNCHANGED <<prompts, displayed, accepted, disk, data>>]_vars

\* a plain-mode session over a file with a record for every object has
\* ended as complete: no prompt, no display command, the file as it was
C13_Witness ==
  /\ pc = "done"
  /\ outcome = "complete"
  /\ ~repro
  /\ ~combined
  /\ Len(disk.rows) = NumObjs
  /\ Cardinality(DOMAIN data) = NumObjs
  /\ accepted = {}
  /\ displayed = {}
  /\ prompts \cap AnnotationPrompts = {}
  /\ img_idx = NumObjs

\* C14 (no silent overwrite): no step of the session stores a record for an
\* object that has a record in the mapping; the record of an object
\* changes only by a removal followed by an insertion, so no single step
\* leaves an object with a record different from the one it had.
C14_NoSilentOverwrite ==
  [][\A f \in DOMAIN data : f \in DOMAIN data' => data'[f] = data[f]]_vars

\* C15 (monotonic cursor): no step decreases img_idx, img_idx stays within
\* 0..len(img_files), and a step that changes it is the skip loop of
\* enter_data moving it past objects _skip tells it to skip.
C15_MonotonicCursor ==
  [][/\ img_idx' >= img_idx
     /\ 0 <= img_idx'
     /\ img_idx' <= Len(img_files')
     /\ img_idx' # img_idx
          => /\ pc = "loop"
             /\ \A i \in img_idx..(img_idx' - 1) :
                  skip(i, img_files, data, repro, species_filter)]_vars

\* after an accepted annotation the cursor has moved on by skipping, and at
\* the later object the species prompt was re-entered by a change-species
\* answer
C15_Witness ==
  /\ pc = "species"
  /\ conf = StrV(ChangeSpecies)
  /\ accepted # {}
  /\ img_idx > 0
  /\ img_idx < Len(img_files)

\* the record has a secondary attribute, and it is empty
EmptyProlo(rec) == Len(rec) = 3 /\ rec[3] = StrV(<<>>)

\* C16 (a repro pass preserves the settled fields): in repro mode
\* enter_data, arriving at an object whose record has an empty secondary
\* attribute, goes to the proloculous prompt without asking for the
\* species; the step that stores the answer leaves the species and the
\* confidence of that record as they were, sets its secondary attribute to
\* mega, micro or unk, and changes no other record.
C16_ReproPreserves ==
  [][/\ (pc = "loop" /\ repro /\ pc' \in PromptStates
           /\ img_files[img_idx' + 1] \in DOMAIN data
           /\ EmptyProlo(data[img_files[img_idx' + 1]]))
          => /\ pc' = "prolo"
             /\ data' = data
     /\ (pc = "prolo" /\ pc' = "loop"
           /\ CurFname \in DOMAIN data /\ EmptyProlo(data[CurFname])
           /\ CurFname \in DOMAIN data')
          => /\ DOMAIN data' = DOMAIN data
             /\ data'[CurFname][1] = data[CurFname][1]
             /\ data'[CurFname][2] = data[CurFname][2]
             /\ data'[CurFname][3] \in {StrV(Mega), StrV(Micro), StrV(Unk)}
             /\ \A g \in DOMAIN data \ {CurFname} : data'[g] = data[g]]_vars

\* the loaded record ("A", "2", "") of object 1 has become
\* ("A", "2", "mega") without a species or confidence prompt, and the loaded
\* record of object 2 is as it was
C16_Witness ==
  /\ repro
  /\ pc = "loop"
  /\ prompts = {"prolo"}
  /\ accepted = {gen_filename(SampleName, 1)}
  /\ data[gen_filename(SampleName, 1)] = <<StrV(SpA), StrV(<<"2">>), StrV(Mega)>>
  /\ gen_filename(SampleName, 2) \in DOMAIN data
  /\ EmptyProlo(data[gen_filename(SampleName, 2)])

\* lower_species is the set of lower-case forms of known_species, and no
\* two known species have the same lower-case form
RegistryConsistent(known, lower) ==
  /\ lower = {Lower(s) : s \in known}
  /\ \A s, t \in known : Lower(s) = Lower(t) => s = t

\* C17 (species registry invariant): after every step lower_species is
\* exactly the set of lower-case forms of known_species and no two members
\* of known_species share a lower-case form; no step removes a member of
\* either set, so the member kept for a lower-case form is the casing
\* registered first.
C17_RegistryInvariant ==
  [][/\ RegistryConsistent(known_species', lower_species')
     /\ known_species \subseteq known_species'
     /\ lower_species \subseteq lower_species']_vars

\* "A" was registered from the loaded file; the label "a" entered later is
\* stored in a record but the registry still holds "A" alone for it
C17_Witness ==
  /\ SpA \in known_species
  /\ <<"a">> \notin known_species
  /\ lower_species = {Lower(s) : s \in known_species}
  /\ \E f \in accepted : data[f][1] = StrV(<<"a">>)

\* C18 (filter confirmation): an answer to the confirmation prompt commits
\* the collected restriction set only if it is "y"; "n" discards the set
\* and restarts the collection from an empty set; every other answer
\* repeats the confirmation prompt and leaves the set as it is.
C18_FilterConfirmation ==
  [][pc = "filter_confirm"
       => /\ confirm' = <<"y">>
               => pc' = "constructed" /\ species_filter' = species_filter
          /\ confirm' = <<"n">>
               => pc' = "filter_species" /\ species_filter' = ListFilter(<<>>)
          /\ confirm' \notin {<<"y">>, <<"n">>}
               => pc' = "filter_confirm" /\ species_filter' = species_filter]_vars

\* the file names of the scanned image directory
ObjectSet == {img_files[i] : i \in 1..Len(img_files)}

\* C19 (referential integrity): in every state every key of the mapping,
\* and of every sibling mapping of a combined session, is the name of an
\* image file of the scanned directory.
C19_ReferentialIntegrity ==
  /\ DOMAIN data \subseteq ObjectSet
  /\ \A k \in 1..Len(fdata) : DOMAIN fdata[k] \subseteq ObjectSet

\* a combined session holds a record seeded from two sibling files and a
\* record accepted at a prompt
C19_Witness ==
  /\ combined
  /\ Len(fdata) = 2
  /\ DOMAIN fdata[1] # {}
  /\ DOMAIN fdata[2] # {}
  /\ accepted # {}
  /\ \E f \in DOMAIN data \ accepted : data[f][2] = IntV(3)

\* a step that accepts an annotation: it leaves the confidence or the
\* proloculous prompt with a record stored for the object at the cursor
StoreStep ==
  /\ pc \in {"conf", "prolo"}
  /\ pc' = "loop"
  /\ CurFname \in DOMAIN data'

\* C20 (progress): an accepted annotation is for an object not accepted
\* before in the session, and _skip is true for that object afterwards; at
\* most len(img_files) annotations are accepted; and a session that has
\* accepted an annotation and has ended without quit, interrupt or
\* change-species has ended as complete with the cursor at the end of the
\* image list.
C20_Progress ==
  [][/\ StoreStep
          => /\ CurFname \notin accepted
             /\ skip(img_idx', img_files', data', repro', species_filter')
     /\ Cardinality(accepted') <= Len(img_files')
     /\ (pc' \in {"done", "aborted"} /\ accepted' # {}
           /\ outcome' \notin {"quit", "interrupt", "KeyError"})
          => /\ outcome' = "complete"
             /\ img_idx' = Len(img_files')]_vars

====
